---- MODULE Spec2Model ----
(***************************************************************************)
(* Model of src/app.py: the voice-memo server.  Audio uploads are saved as *)
(* uploads_raw/uploaded_<stamp>.wav, transcribed, and the transcript saved *)
(* as uploads_text/uploaded_<stamp>.json; the search page lists the        *)
(* transcripts in a time range; blobs are played back and exported as ZIP. *)
(*                                                                         *)
(* An instant is a number of seconds since 00:00:00 of day 0 of the model; *)
(* instant 0 stands for datetime.min.                                      *)
(***************************************************************************)
EXTENDS Integers, Sequences, FiniteSets, TLC

VARIABLES
    clock,          \* the wall clock read by datetime.now()
    uploads_raw,    \* UPLOAD_DIR: file name -> bytes
    uploads_text,   \* TEXT_DIR: file name -> file content
    request,        \* the request handled last
    response,       \* its response
    calls,          \* the functions the handler called, in order
    wav_path,       \* the local wav_path of upload_audio, once assigned
    nuploads,       \* number of non-empty uploads handled so far
    nfaults,        \* number of I/O errors and engine failures so far
    threads         \* the upload requests that run side by side, step by step

vars == <<clock, uploads_raw, uploads_text, request, response, calls, wav_path,
          nuploads, nfaults, threads>>

-----------------------------------------------------------------------------
(* Bounds of the model.                                                    *)

MaxUploads == 3
MaxFaults == 1
MaxElapsed == 15

SecPerDay == 24 * 60 * 60

\* The clock starts at 23:59:20 of day 0, so that runs cross midnight.
StartClock == 23 * 3600 + 59 * 60 + 20

\* Time passes in steps of 15 seconds: between requests, and while an upload
\* is transcribed (or not at all: transcription within the second).
TickStep == 3 * 5
SttDelays == {0, TickStep}

\* Request bodies: the empty body and two different non-empty ones.
Payloads == {<< >>, <<82>>, <<82, 73>>}

-----------------------------------------------------------------------------
(* Dates and times.                                                        *)

DayOf(t) == t \div SecPerDay
HourOf(t) == (t % SecPerDay) \div 3600
MinuteOf(t) == (t % 3600) \div 60
SecondOf(t) == t % 60

\* A datetime object, or None.
None == [some |-> FALSE, t |-> 0, aware |-> FALSE]
Naive(t) == [some |-> TRUE, t |-> t, aware |-> FALSE]
Aware(t) == [some |-> TRUE, t |-> t, aware |-> TRUE]

\* datetime.min
DatetimeMin == Naive(0)

\* now.strftime("%Y%m%d_%H%M%S"): the date digits and the time digits HHMMSS.
strftime_stamp(t) ==
    [date |-> DayOf(t), time |-> HourOf(t) * 10000 + MinuteOf(t) * 100 + SecondOf(t)]

\* now.strftime("%Y-%m-%d")
strftime_date(t) == [k |-> "str", day |-> DayOf(t)]

\* A JSON value of a transcript's "datetime" field.  k is "iso" for a string in
\* ISO-8601 form (off: it carries a UTC offset), "text" for any other non-empty
\* string, "empty" for "", "number" for a non-zero number, "null" for null and
\* "absent" for a missing key.
JsonDatetime(k, t, off) ==
    [k |-> k, day |-> DayOf(t), hh |-> HourOf(t), mm |-> MinuteOf(t), ss |-> SecondOf(t), off |-> off]

\* datetime.isoformat()
isoformat(t) == JsonDatetime("iso", t, FALSE)

\* Whether a JSON value is truthy ("if dt_str:").
Truthy(v) == v.k \in {"iso", "text", "number"}

\* datetime.fromisoformat(v): "TypeError" for a non-string, "ValueError" for
\* a string that is no ISO date, else the datetime.
fromisoformat(v) ==
    IF v.k \notin {"iso", "text", "empty"} THEN [exc |-> "TypeError", dt |-> None]
    ELSE IF v.k # "iso" \/ v.hh \notin 0..23 \/ v.mm \notin 0..59 \/ v.ss \notin 0..59
              \/ v.day < 0
         THEN [exc |-> "ValueError", dt |-> None]
    ELSE LET t == v.day * SecPerDay + v.hh * 3600 + v.mm * 60 + v.ss
         IN  [exc |-> "", dt |-> IF v.off THEN Aware(t) ELSE Naive(t)]

-----------------------------------------------------------------------------
(* File names and paths.  A path segment is a record; a file name written  *)
(* by the server is "uploaded_" + stamp + extension.                       *)

Segment(lit, date, time, ext) == [lit |-> lit, date |-> date, time |-> time, ext |-> ext]

Dir(lit) == Segment(lit, 0, 0, "")
DotDot == Dir("..")

\* f"uploaded_{now}.wav"
WavFilename(stamp) == Segment("uploaded_", stamp.date, stamp.time, ".wav")

\* A transcript name that does not depend on the blob's name.
JsonFilename_fixed(wav_filename) == Segment("uploaded_", 0, 0, ".json")

\* os.path.splitext(wav_filename)[0] + ".json"
JsonFilename(wav_filename) == [wav_filename EXCEPT !.ext = ".json"]

\* name.endswith(".json")
EndsWithJson(name) == name.ext = ".json"

BASE_DIR == <<Dir("app")>>
UPLOAD_DIR == BASE_DIR \o <<Dir("uploads_raw")>>
TEXT_DIR == BASE_DIR \o <<Dir("uploads_text")>>

\* The source file itself, BASE_DIR/app.py.
AppPy == Segment("app", 0, 0, ".py")

Front(s) == SubSeq(s, 1, Len(s) - 1)
Last(s) == s[Len(s)]

-----------------------------------------------------------------------------
(* The file system.  A requested name is [abs, segs]: an absolute or a     *)
(* relative path of segments.                                              *)

Directories == {<< >>, BASE_DIR, UPLOAD_DIR, TEXT_DIR}

\* os.path.isfile(p) for a normalised absolute path p.
IsFileAt(raw, text, p) ==
    /\ Len(p) > 0
    /\ \/ Front(p) = UPLOAD_DIR /\ Last(p) \in DOMAIN raw
       \/ Front(p) = TEXT_DIR /\ Last(p) \in DOMAIN text
       \/ Front(p) = BASE_DIR /\ Last(p) = AppPy

\* The kernel's walk of the segments segs from directory cur: ".." goes to the
\* parent, "." and "" stay, a name enters it.  ok is FALSE once the walk goes
\* through something that is no directory.
RECURSIVE Walk(_, _, _, _)
Walk(raw, text, cur, segs) ==
    IF segs = << >> THEN [ok |-> TRUE, path |-> cur]
    ELSE IF cur \notin Directories THEN [ok |-> FALSE, path |-> cur]
    ELSE LET s == Head(segs)
             nxt == IF s = DotDot THEN Front(cur)
                    ELSE IF s.lit \in {".", ""} /\ s.ext = "" THEN cur
                    ELSE Append(cur, s)
         IN  Walk(raw, text, nxt, Tail(segs))

\* os.path.join(directory, name): an absolute name replaces the directory.
PathJoin(directory, name) ==
    [start |-> IF name.abs THEN << >> ELSE directory, segs |-> name.segs]

\* os.path.isfile(os.path.join(UPLOAD_DIR, name)), with the file it names.
JoinedFile(raw, text, name) ==
    LET j == PathJoin(UPLOAD_DIR, name)
        w == Walk(raw, text, j.start, j.segs)
    IN  [isfile |-> w.ok /\ IsFileAt(raw, text, w.path), path |-> w.path]

\* posixpath.normpath of a relative path: "." and "" dropped, "x/.." folded,
\* leading ".." kept.
RECURSIVE NormPath(_, _)
NormPath(done, segs) ==
    IF segs = << >> THEN done
    ELSE LET s == Head(segs)
         IN  IF s.lit \in {".", ""} /\ s.ext = "" THEN NormPath(done, Tail(segs))
             ELSE IF s = DotDot /\ done # << >> /\ Last(done) # DotDot
                  THEN NormPath(Front(done), Tail(segs))
             ELSE NormPath(Append(done, s), Tail(segs))

\* werkzeug's safe_join(directory, filename), as send_from_directory uses it:
\* found is FALSE for an absolute name and for one that normalises to a path
\* starting with "..".
SafeJoin(directory, name) ==
    LET n == NormPath(<< >>, name.segs)
    IN  IF name.abs \/ (n # << >> /\ Head(n) = DotDot)
        THEN [found |-> FALSE, path |-> directory]
        ELSE [found |-> TRUE, path |-> directory \o n]

-----------------------------------------------------------------------------
(* Writing a file: open(path, "w") truncates, then the bytes are written.  *)
(* An I/O outcome is [open, written]: whether the open succeeded and how   *)
(* much of the content reached the file; the write succeeded iff all did.  *)

IoOutcomes(n) ==
    {[open |-> FALSE, written |-> 0]} \cup {[open |-> TRUE, written |-> k] : k \in 0..n}

IoOk(n) == [open |-> TRUE, written |-> n]

\* f with f[name] set to value, name added to the domain if new.
Put(f, name, value) ==
    [n \in DOMAIN f \cup {name} |-> IF n = name THEN value ELSE f[n]]

EmptyDir == [n \in {} |-> << >>]

\* A save_wav_bytes that loses the last byte of the body.
save_wav_bytes_short(raw, now, data, io) ==
    LET filename == WavFilename(strftime_stamp(now))
    IN  [raw |-> IF io.open THEN Put(raw, filename, SubSeq(data, 1, io.written - 1)) ELSE raw,
         exc |-> io # IoOk(Len(data)),
         path |-> filename]

\* save_wav_bytes(data) at clock time now under I/O outcome io.
save_wav_bytes(raw, now, data, io) ==
    LET filename == WavFilename(strftime_stamp(now))
    IN  [raw |-> IF io.open THEN Put(raw, filename, SubSeq(data, 1, io.written)) ELSE raw,
         exc |-> io # IoOk(Len(data)),
         path |-> filename]

-----------------------------------------------------------------------------
(* Transcription.  The engine is a black box: it fails, or yields one      *)
(* segment per byte of the audio it reads.                                 *)

LANGUAGE == "ja"

\* model.transcribe(path, ...): the segments of the audio in the file.
EngineSegments(bytes) ==
    [i \in 1..Len(bytes) |-> [id |-> i, text |-> <<bytes[i]>>]]

\* "".join(seg.text for seg in segments)
RECURSIVE JoinTexts(_)
JoinTexts(segments) ==
    IF segments = << >> THEN << >>
    ELSE Head(segments).text \o JoinTexts(Tail(segments))

\* A transcribe_wav that swallows the engine's exception.
transcribe_wav_swallow(raw, path, ok) ==
    [exc |-> FALSE,
     text |-> IF ok THEN JoinTexts(EngineSegments(raw[path])) ELSE << >>,
     language |-> LANGUAGE,
     duration |-> Len(raw[path]),
     segments |-> << >>]

\* transcribe_wav(path), the engine working (ok) or raising.  The segments
\* are a generator that the join has consumed, so seg_list stays empty.
transcribe_wav(raw, path, ok) ==
    LET segments == EngineSegments(raw[path])
    IN  [exc |-> ~ok,
         text |-> JoinTexts(segments),
         language |-> LANGUAGE,
         duration |-> Len(raw[path]),
         segments |-> << >>]

-----------------------------------------------------------------------------
(* Transcript files.  kind is "object" for a JSON object, "nonobject" for  *)
(* another JSON value and "invalid" for a file that is no JSON.            *)

TranscriptFile(kind, filename, datetime, text, language, duration) ==
    [kind |-> kind, filename |-> filename, datetime |-> datetime, text |-> text,
     language |-> language, duration |-> duration, segments |-> << >>,
     source |-> "cardputer"]

\* A file whose json.dump stopped early: a cut-off JSON text.
InvalidFile ==
    TranscriptFile("invalid", Dir(""), JsonDatetime("absent", 0, FALSE), << >>, "", 0)

\* A save_transcription_json whose dump writes the whole text before it fails.
save_transcription_json_whole(text, now, wav_filename, stt_result, io) ==
    LET json_filename == JsonFilename(wav_filename)
        meta == TranscriptFile("object", wav_filename, isoformat(now), stt_result.text,
                               stt_result.language, stt_result.duration)
    IN  [text |-> IF ~io.open THEN text ELSE Put(text, json_filename, meta),
         exc |-> io # IoOk(1),
         path |-> json_filename]

\* save_transcription_json(wav_path, stt_result) at clock time now under io:
\* io.written is 1 when the whole text was written, 0 when the dump stopped.
save_transcription_json(text, now, wav_filename, stt_result, io) ==
    LET json_filename == JsonFilename(wav_filename)
        meta == TranscriptFile("object", wav_filename, isoformat(now), stt_result.text,
                               stt_result.language, stt_result.duration)
    IN  [text |-> IF ~io.open THEN text
                  ELSE Put(text, json_filename, IF io.written = 1 THEN meta ELSE InvalidFile),
         exc |-> io # IoOk(1),
         path |-> json_filename]

-----------------------------------------------------------------------------
(* Listing and filtering.                                                  *)

\* The order of sorted(os.listdir(TEXT_DIR)): names of one prefix and extension
\* with fixed-width digits sort as their numbers do.
NameKey(name) == name.date * 1000000 + name.time

RECURSIVE SortedNames(_)
SortedNames(S) ==
    IF S = {} THEN << >>
    ELSE LET m == CHOOSE x \in S : \A y \in S : NameKey(x) <= NameKey(y)
         IN  <<m>> \o SortedNames(S \ {m})

\* The loop body of load_all_transcripts for one file: the item appended, or
\* skip when an exception reached the outer handler.
LoadOne(file) ==
    IF file.kind # "object" THEN [skip |-> TRUE, item |-> [data |-> file, _dt |-> None]]
    ELSE LET dt_str == file.datetime
             parsed == fromisoformat(dt_str)
         IN  IF ~Truthy(dt_str) THEN [skip |-> FALSE, item |-> [data |-> file, _dt |-> None]]
             ELSE IF parsed.exc = "TypeError"
                  THEN [skip |-> TRUE, item |-> [data |-> file, _dt |-> None]]
             ELSE [skip |-> FALSE, item |-> [data |-> file, _dt |-> parsed.dt]]

RECURSIVE LoadItems(_, _)
LoadItems(text, names) ==
    IF names = << >> THEN << >>
    ELSE LET name == Head(names)
             one == LoadOne(text[name])
         IN  (IF ~EndsWithJson(name) \/ one.skip THEN << >> ELSE <<one.item>>)
             \o LoadItems(text, Tail(names))

\* key=lambda x: x.get("_dt") or datetime.min
SortKey(item) == IF item._dt.some THEN item._dt ELSE DatetimeMin

\* Comparing a naive datetime with an aware one raises TypeError.
Comparable(a, b) == a.aware = b.aware

\* list.sort(key=..., reverse=True): stable, so that an item goes after the
\* items whose key is greater or equal.
RECURSIVE InsertDesc(_, _)
InsertDesc(sorted, item) ==
    IF sorted = << >> THEN <<item>>
    ELSE IF SortKey(Head(sorted)).t >= SortKey(item).t
         THEN <<Head(sorted)>> \o InsertDesc(Tail(sorted), item)
    ELSE <<item>> \o sorted

RECURSIVE SortDesc(_, _)
SortDesc(sorted, items) ==
    IF items = << >> THEN sorted
    ELSE SortDesc(InsertDesc(sorted, Head(items)), Tail(items))

\* load_all_transcripts(): exc when the sort compared a naive key with an aware one.
load_all_transcripts(text) ==
    LET items == LoadItems(text, SortedNames(DOMAIN text))
        raises == \E i, j \in 1..Len(items) : ~Comparable(SortKey(items[i]), SortKey(items[j]))
    IN  [exc |-> raises, items |-> IF raises THEN << >> ELSE SortDesc(<< >>, items)]

\* The loop of filter_by_range over the items left: exc when a comparison raised.
RECURSIVE FilterLoop(_, _, _)
FilterLoop(items, start_dt, end_dt) ==
    IF items = << >> THEN [exc |-> FALSE, items |-> << >>]
    ELSE LET it == Head(items)
             dt == it._dt
             rest == FilterLoop(Tail(items), start_dt, end_dt)
         IN  IF ~dt.some THEN rest
             ELSE IF start_dt.some /\ ~Comparable(dt, start_dt) THEN [exc |-> TRUE, items |-> << >>]
             ELSE IF start_dt.some /\ dt.t < start_dt.t THEN rest
             ELSE IF end_dt.some /\ ~Comparable(dt, end_dt) THEN [exc |-> TRUE, items |-> << >>]
             ELSE IF end_dt.some /\ dt.t > end_dt.t THEN rest
             ELSE [exc |-> rest.exc, items |-> IF rest.exc THEN << >> ELSE <<it>> \o rest.items]

\* A filter_by_range without the return for two absent bounds.
filter_by_range_loop(items, start_dt, end_dt) ==
    FilterLoop(items, start_dt, end_dt)

filter_by_range(items, start_dt, end_dt) ==
    IF ~start_dt.some /\ ~end_dt.some THEN [exc |-> FALSE, items |-> items]
    ELSE FilterLoop(items, start_dt, end_dt)

-----------------------------------------------------------------------------
(* Requests and responses.                                                 *)

Rel(segs) == [abs |-> FALSE, segs |-> segs]
Abs(segs) == [abs |-> TRUE, segs |-> segs]

NoName == Dir("")

\* A form field of the search page.  k is "absent", "empty" or "str"; a date
\* of kind "bad" is a string that is no %Y-%m-%d date; a time string is no
\* %H:%M time when its numbers are out of range.
FormDate(k, day) == [k |-> k, day |-> day]
FormTime(k, hh, mm) == [k |-> k, hh |-> hh, mm |-> mm]

AbsentDate == FormDate("absent", 0)
AbsentTime == FormTime("absent", 0, 0)
NoForm == [start_date |-> AbsentDate, start_time |-> AbsentTime,
           end_date |-> AbsentDate, end_time |-> AbsentTime]

\* What the environment does during a request: the I/O outcomes of its two
\* writes, whether the engine works and the seconds it takes.
NoEnv == [io1 |-> IoOk(0), stt_ok |-> TRUE, delay |-> 0, io2 |-> IoOk(1)]

\* items, start_dt and end_dt: the arguments of a call of filter_by_range.
NoRequest ==
    [route |-> "", method |-> "", data |-> << >>, filename |-> Rel(<< >>),
     files |-> << >>, form |-> NoForm, env |-> NoEnv,
     items |-> << >>, start_dt |-> None, end_dt |-> None]

\* path: the file whose content the response carries (body); entries: the
\* archive's entries, each the archive name and the file whose content it holds;
\* items and the four date/time fields: what index passes to the template.
NoResponse ==
    [status |-> 0, message |-> "", filename |-> NoName, json |-> NoName, text |-> << >>,
     language |-> "", duration |-> 0, path |-> << >>, body |-> << >>, mimetype |-> "",
     entries |-> << >>, items |-> << >>, form |-> NoForm, start_dt |-> None, end_dt |-> None]

ErrorResponse(status, message) == [NoResponse EXCEPT !.status = status, !.message = message]

-----------------------------------------------------------------------------------------------------------------------------------------------------
(* POST /upload_audio                                                      *)

\* Stages that go on to save a transcript when the engine has failed.
upload_stages_continue(raw, text, now, data, env) ==
    LET saved == save_wav_bytes(raw, now, data, env.io1) IN
    IF saved.exc
    THEN [raw |-> saved.raw, text |-> text, clock |-> now, calls |-> <<"save_wav_bytes">>,
          wav_path |-> NoName, response |-> ErrorResponse(500, "save failed")]
    ELSE
    LET stt_result == [transcribe_wav(saved.raw, saved.path, env.stt_ok) EXCEPT !.exc = FALSE]
        later == now + env.delay
        written == save_transcription_json(text, later, saved.path, stt_result, env.io2)
    IN  [raw |-> saved.raw, text |-> written.text, clock |-> later,
         calls |-> <<"save_wav_bytes", "transcribe_wav", "save_transcription_json">>,
         wav_path |-> saved.path,
         response |-> IF written.exc THEN ErrorResponse(500, "json save failed")
                      ELSE [NoResponse EXCEPT !.status = 200, !.message = "ok",
                                              !.filename = saved.path, !.json = written.path,
                                              !.text = stt_result.text,
                                              !.language = stt_result.language,
                                              !.duration = stt_result.duration]]

\* The stages of the handler after the check of the body, at clock time now
\* under environment env.
upload_stages(raw, text, now, data, env) ==
    LET saved == save_wav_bytes(raw, now, data, env.io1) IN
    IF saved.exc
    THEN [raw |-> saved.raw, text |-> text, clock |-> now, calls |-> <<"save_wav_bytes">>,
          wav_path |-> NoName, response |-> ErrorResponse(500, "save failed")]
    ELSE
    LET stt_result == transcribe_wav(saved.raw, saved.path, env.stt_ok)
        later == now + env.delay
    IN
    IF stt_result.exc
    THEN [raw |-> saved.raw, text |-> text, clock |-> later,
          calls |-> <<"save_wav_bytes", "transcribe_wav">>,
          wav_path |-> saved.path, response |-> ErrorResponse(500, "stt failed")]
    ELSE
    LET written == save_transcription_json(text, later, saved.path, stt_result, env.io2) IN
    IF written.exc
    THEN [raw |-> saved.raw, text |-> written.text, clock |-> later,
          calls |-> <<"save_wav_bytes", "transcribe_wav", "save_transcription_json">>,
          wav_path |-> saved.path, response |-> ErrorResponse(500, "json save failed")]
    ELSE [raw |-> saved.raw, text |-> written.text, clock |-> later,
          calls |-> <<"save_wav_bytes", "transcribe_wav", "save_transcription_json">>,
          wav_path |-> saved.path,
          response |-> [NoResponse EXCEPT !.status = 200, !.message = "ok",
                                          !.filename = saved.path, !.json = written.path,
                                          !.text = stt_result.text,
                                          !.language = stt_result.language,
                                          !.duration = stt_result.duration]]

\* An upload_audio without the check of the body.
upload_audio_unchecked(raw, text, now, data, env) ==
    upload_stages(raw, text, now, data, env)

\* The handler on body data.
upload_audio(raw, text, now, data, env) ==
    IF data = << >>
    THEN [raw |-> raw, text |-> text, clock |-> now, calls |-> << >>, wav_path |-> NoName,
          response |-> ErrorResponse(400, "no data")]
    ELSE upload_stages(raw, text, now, data, env)

-----------------------------------------------------------------------------
(* GET /audio/<filename>                                                   *)

\* The bytes of the file at path p (a blob's; other files hold no audio bytes).
FileBytes(raw, p) ==
    IF Len(p) > 0 /\ Front(p) = UPLOAD_DIR /\ Last(p) \in DOMAIN raw THEN raw[Last(p)] ELSE << >>

\* send_from_directory(UPLOAD_DIR, filename)
serve_audio(raw, text, filename) ==
    LET joined == SafeJoin(UPLOAD_DIR, filename)
    IN  [calls |-> <<"send_from_directory">>,
         response |->
            IF joined.found /\ IsFileAt(raw, text, joined.path)
            THEN [NoResponse EXCEPT !.status = 200, !.path = joined.path,
                                    !.body = FileBytes(raw, joined.path)]
            ELSE ErrorResponse(404, "Not Found")]

-----------------------------------------------------------------------------
(* POST /download_selected                                                 *)

\* The loop over the names: zf.write(path, arcname=name) for each that is a
\* file.  ZipFile.write normalises the archive name.
RECURSIVE ZipEntries(_, _, _)
ZipEntries(raw, text, filenames) ==
    IF filenames = << >> THEN << >>
    ELSE LET name == Head(filenames)
             file == JoinedFile(raw, text, name)
         IN  (IF file.isfile
              THEN <<[arcname |-> NormPath(<< >>, name.segs), path |-> file.path]>>
              ELSE << >>)
             \o ZipEntries(raw, text, Tail(filenames))

\* The archive and its sending, after the check of the selection.
build_archive(raw, text, filenames) ==
    [calls |-> <<"ZipFile">> \o [i \in 1..Len(filenames) |-> "isfile"] \o <<"send_file">>,
     response |-> [NoResponse EXCEPT !.status = 200, !.mimetype = "application/zip",
                                     !.entries = ZipEntries(raw, text, filenames)]]

\* A download_selected without the check of the selection.
download_selected_unchecked(raw, text, filenames) ==
    build_archive(raw, text, filenames)

download_selected(raw, text, filenames) ==
    IF filenames = << >>
    THEN [calls |-> << >>, response |-> ErrorResponse(400, "no files selected")]
    ELSE build_archive(raw, text, filenames)

-----
(* GET / and POST /: the search page                                       *)

\* request.form.get(field) or default
OrDefault(field, default) == IF field.k \in {"absent", "empty"} THEN default ELSE field

\* A parse_dt that reads a field that is no date or no time as zero instead
\* of returning None.
parse_dt_lenient(date_str, time_str, is_end) ==
    IF date_str.k \in {"absent", "empty"} THEN None
    ELSE LET time == IF time_str.k \in {"absent", "empty"}
                     THEN (IF is_end THEN FormTime("str", 23, 59) ELSE FormTime("str", 0, 0))
                     ELSE time_str
             day == IF date_str.k = "str" /\ date_str.day >= 0 THEN date_str.day ELSE 0
             ok == time.hh \in 0..23 /\ time.mm \in 0..59
         IN  Naive(day * SecPerDay + (IF ok THEN time.hh * 3600 + time.mm * 60 ELSE 0))

\* parse_dt(date_str, time_str, is_end)
parse_dt(date_str, time_str, is_end) ==
    IF date_str.k \in {"absent", "empty"} THEN None
    ELSE LET time == IF time_str.k \in {"absent", "empty"}
                     THEN (IF is_end THEN FormTime("str", 23, 59) ELSE FormTime("str", 0, 0))
                     ELSE time_str
         IN  IF date_str.k = "str" /\ date_str.day >= 0
                /\ time.hh \in 0..23 /\ time.mm \in 0..59
             THEN Naive(date_str.day * SecPerDay + time.hh * 3600 + time.mm * 60)
             ELSE None

index(text, now, method, form) ==
    LET default_start_date == strftime_date(now)
        default_end_date == strftime_date(now)
        default_start_time == FormTime("str", 0, 0)
        default_end_time == FormTime("str", 23, 59)
        post == method = "POST"
        start_date == IF post THEN OrDefault(form.start_date, default_start_date) ELSE default_start_date
        start_time == IF post THEN OrDefault(form.start_time, default_start_time) ELSE default_start_time
        end_date == IF post THEN OrDefault(form.end_date, default_end_date) ELSE default_end_date
        end_time == IF post THEN OrDefault(form.end_time, default_end_time) ELSE default_end_time
        start_dt == parse_dt(start_date, start_time, FALSE)
        end_dt == parse_dt(end_date, end_time, TRUE)
        items == load_all_transcripts(text)
        filtered == IF items.exc THEN items ELSE filter_by_range(items.items, start_dt, end_dt)
    IN  [calls |-> <<"load_all_transcripts">>
                   \o (IF items.exc THEN << >> ELSE <<"filter_by_range">>)
                   \o (IF filtered.exc THEN << >> ELSE <<"render_template">>),
         response |->
            IF filtered.exc THEN ErrorResponse(500, "Internal Server Error")
            ELSE [NoResponse EXCEPT !.status = 200, !.items = filtered.items,
                                    !.form = [start_date |-> start_date, start_time |-> start_time,
                                              end_date |-> end_date, end_time |-> end_time],
                                    !.start_dt = start_dt, !.end_dt = end_dt]]

-----------------------------------------------------------------------------
(* The inputs of the requests.                                             *)

\* The environment of one upload: the I/O outcomes of the two writes, whether
\* the engine works and the seconds it takes.  What a run never gets to (the
\* engine after a failed save) takes one value only.
UploadEnvironments(data) ==
    {e \in [io1 : IoOutcomes(Len(data)), stt_ok : BOOLEAN, delay : SttDelays,
            io2 : IoOutcomes(1)] :
        /\ (data = << >> \/ e.io1 # IoOk(Len(data))) => (e.stt_ok /\ e.delay = 0)
        /\ (data = << >> \/ e.io1 # IoOk(Len(data)) \/ ~e.stt_ok) => e.io2 = IoOk(1)
        /\ data = << >> => e.io1 = IoOk(0)}

\* The names a client asks for: the blobs, a blob that does not exist, the
\* newest blob through a directory that does not exist, and names that leave
\* UPLOAD_DIR (the newest transcript, the source file, an absolute path).
MissingWav == WavFilename([date |-> 0, time |-> 0])

Newest(S) == CHOOSE x \in S : \A y \in S : NameKey(y) <= NameKey(x)

RequestNames ==
    {Rel(<<f>>) : f \in DOMAIN uploads_raw}
    \cup {Rel(<<Dir("sub"), DotDot, f>>) :
             f \in {g \in DOMAIN uploads_raw : g = Newest(DOMAIN uploads_raw)}}
    \cup {Rel(<<DotDot, Dir("uploads_text"), f>>) :
             f \in {g \in DOMAIN uploads_text : g = Newest(DOMAIN uploads_text)}}
    \cup {Rel(<<MissingWav>>), Rel(<<DotDot, AppPy>>), Abs(BASE_DIR \o <<AppPy>>)}

\* The "files" fields of an export: none, one name, or a blob's name with a
\* second one that is the same name or a blob that does not exist.
RequestLists ==
    {<< >>} \cup {<<a>> : a \in RequestNames}
    \cup UNION {{<<Rel(<<f>>), Rel(<<f>>)>>, <<Rel(<<f>>), Rel(<<MissingWav>>)>>} :
                   f \in DOMAIN uploads_raw}

\* The minutes a search names: the minute the run starts in and the next.
SearchMinutes == {StartClock - (StartClock % 60) + 60 * k : k \in 0..1}

\* A date field with its time field: a minute, or both fields absent.
FieldPairs ==
    {[date |-> FormDate("str", DayOf(t)), time |-> FormTime("str", HourOf(t), MinuteOf(t))] :
        t \in SearchMinutes}
    \cup {[date |-> AbsentDate, time |-> AbsentTime]}

\* The start fields of a search: also a date that is no date, with an empty time.
StartPairs == FieldPairs \cup {[date |-> FormDate("bad", 0), time |-> FormTime("empty", 0, 0)]}

\* The end fields of a search: also an empty date with the time "24:00".
EndPairs == FieldPairs \cup {[date |-> FormDate("empty", 0), time |-> FormTime("str", 24, 0)]}

-----------------------------------------------------------------------------
(* Upload requests that run side by side.  Each is at a step of the        *)
(* handler (pc) and holds the handler's locals.                            *)

MaxThreads == 2

Threads == 1..MaxThreads

\* A request not yet received.  now: the clock read by save_transcription_json;
\* stt_text: the text of stt_result; status, message and text: the response.
NoThread ==
    [pc |-> "idle", data |-> << >>, wav_path |-> NoName, stt_text |-> << >>, now |-> 0,
     status |-> 0, message |-> "", text |-> << >>]

NoThreads == [t \in Threads |-> NoThread]

\* The request ends with an error response.
Failed(thread, status, message) ==
    [thread EXCEPT !.pc = "done", !.status = status, !.message = message]

\* A write of the bytes new at offset 0 of a file that holds old.
Overlay(old, new) == new \o SubSeq(old, Len(new) + 1, Len(old))

\* meta of save_transcription_json, with the file name of the transcript in
\* place of the blob's.
meta_json_name(wav_filename, now, stt_text) ==
    TranscriptFile("object", JsonFilename(wav_filename), isoformat(now), stt_text, LANGUAGE,
                   Len(stt_text))

\* meta of save_transcription_json.
meta(wav_filename, now, stt_text) ==
    TranscriptFile("object", wav_filename, isoformat(now), stt_text, LANGUAGE, Len(stt_text))

\* A write of the JSON text new at offset 0 of a transcript file that holds
\* old: a longer old text leaves its tail behind the new one, which is no JSON.
OverlayJson(old, new) ==
    IF old.kind = "object" /\ Len(old.text) > Len(new.text) THEN InvalidFile ELSE new

-----------------------------------------------------------------------------
(* The state machine: one action per request, and the passing of time.     *)

Init ==
    /\ clock = StartClock
    /\ uploads_raw = EmptyDir
    /\ uploads_text = EmptyDir
    /\ request = NoRequest
    /\ response = NoResponse
    /\ calls = << >>
    /\ wav_path = NoName
    /\ nuploads = 0
    /\ nfaults = 0
    /\ threads = NoThreads

\* Time passes between two requests.
Tick ==
    /\ clock + TickStep <= StartClock + MaxElapsed
    /\ clock' = clock + TickStep
    /\ UNCHANGED <<uploads_raw, uploads_text, request, response, calls, wav_path,
                   nuploads, nfaults, threads>>

UploadAudio ==
    \E data \in Payloads :
    \E env \in UploadEnvironments(data) :
    \E r \in {upload_audio(uploads_raw, uploads_text, clock, data, env)} :
        LET failed == r.response.status = 500
        IN  /\ data # << >> => nuploads < MaxUploads
            /\ failed => nfaults < MaxFaults
            /\ nuploads' = IF data = << >> THEN nuploads ELSE nuploads + 1
            /\ nfaults' = IF failed THEN nfaults + 1 ELSE nfaults
            /\ request' = [NoRequest EXCEPT !.route = "/upload_audio", !.method = "POST",
                                            !.data = data, !.env = env]
            /\ uploads_raw' = r.raw
            /\ uploads_text' = r.text
            /\ clock' = r.clock
            /\ calls' = r.calls
            /\ wav_path' = r.wav_path
            /\ response' = r.response
            /\ UNCHANGED threads

ServeAudio ==
    \E filename \in RequestNames :
    \E r \in {serve_audio(uploads_raw, uploads_text, filename)} :
        /\ request' = [NoRequest EXCEPT !.route = "/audio", !.method = "GET",
                                        !.filename = filename]
        /\ response' = r.response
        /\ calls' = r.calls
        /\ wav_path' = NoName
        /\ UNCHANGED <<clock, uploads_raw, uploads_text, nuploads, nfaults, threads>>

DownloadSelected ==
    \E filenames \in RequestLists :
    \E r \in {download_selected(uploads_raw, uploads_text, filenames)} :
        /\ request' = [NoRequest EXCEPT !.route = "/download_selected", !.method = "POST",
                                        !.files = filenames]
        /\ response' = r.response
        /\ calls' = r.calls
        /\ wav_path' = NoName
        /\ UNCHANGED <<clock, uploads_raw, uploads_text, nuploads, nfaults, threads>>

Index ==
    \E method \in {"GET", "POST"}, start \in StartPairs, end \in EndPairs :
    \E form \in {[start_date |-> start.date, start_time |-> start.time,
                   end_date |-> end.date, end_time |-> end.time]} :
        /\ method = "GET" => form = NoForm
        /\ \E r \in {index(uploads_text, clock, method, form)} :
            /\ request' = [NoRequest EXCEPT !.route = "/", !.method = method, !.form = form]
            /\ response' = r.response
            /\ calls' = r.calls
            /\ wav_path' = NoName
            /\ UNCHANGED <<clock, uploads_raw, uploads_text, nuploads, nfaults, threads>>

Next == Tick \/ UploadAudio \/ ServeAudio \/ DownloadSelected \/ Index

Spec == Init /\ [][Next]_vars

-----------------------------------------------------------------------------
(* Listing over any content of TEXT_DIR: the files are drawn from a bounded *)
(* set and load_all_transcripts is applied to them.                        *)

MaxListFiles == 3

\* Names in TEXT_DIR: transcripts, and one file that is no .json file.
ListNames == {Segment("uploaded_", 0, k, ".json") : k \in 1..MaxListFiles}

OtherName == Segment("uploaded_", 0, 0, ".tmp")

\* Values of a "datetime" field: missing, null, "", a number, a text that is
\* no date, and ISO dates without and with a UTC offset; instant 0 is the
\* date of datetime.min.
ListInstants == {0, StartClock, StartClock + TickStep}

DatetimeValues ==
    {JsonDatetime(k, 0, FALSE) : k \in {"absent", "null", "empty", "number", "text"}}
    \cup {JsonDatetime("iso", t, FALSE) : t \in ListInstants}
    \cup {JsonDatetime("iso", StartClock, TRUE)}

\* Contents of a file: no JSON, a JSON value that is no object, an object.
ListContents ==
    {InvalidFile, [InvalidFile EXCEPT !.kind = "nonobject"]}
    \cup {TranscriptFile("object", NoName, v, << >>, LANGUAGE, 0) : v \in DatetimeValues}

\* A name that has no file.
NoFile == [InvalidFile EXCEPT !.kind = "absent"]

\* The directory that holds the files f gives to the names, and the file that
\* is no .json file if other: each object names the blob of its file's name;
\* the file that is no .json file holds a record with a timestamp.
ListDirectory(f, other) ==
    [n \in {m \in ListNames : f[m] # NoFile} \cup (IF other THEN {OtherName} ELSE {}) |->
        IF n = OtherName
        THEN TranscriptFile("object", [n EXCEPT !.ext = ".wav"],
                            JsonDatetime("iso", StartClock + TickStep, FALSE),
                            << >>, LANGUAGE, 0)
        ELSE IF f[n].kind = "object"
        THEN [f[n] EXCEPT !.filename = [n EXCEPT !.ext = ".wav"]]
        ELSE f[n]]

InitList ==
    /\ clock = StartClock
    /\ uploads_raw = EmptyDir
    /\ \E f \in [ListNames -> ListContents \cup {NoFile}], other \in BOOLEAN :
          uploads_text = ListDirectory(f, other)
    /\ request = NoRequest
    /\ response = NoResponse
    /\ calls = << >>
    /\ wav_path = NoName
    /\ nuploads = 0
    /\ nfaults = 0
    /\ threads = NoThreads

\* A call of load_all_transcripts(): the list, or the 500 of a TypeError.
ListTranscripts ==
    /\ request = NoRequest
    /\ \E r \in {load_all_transcripts(uploads_text)} :
        /\ request' = [NoRequest EXCEPT !.route = "load_all_transcripts"]
        /\ response' = IF r.exc THEN ErrorResponse(500, "TypeError")
                       ELSE [NoResponse EXCEPT !.status = 200, !.items = r.items]
        /\ calls' = <<"load_all_transcripts">>
    /\ UNCHANGED <<clock, uploads_raw, uploads_text, wav_path, nuploads, nfaults, threads>>

NextList == ListTranscripts

SpecList == InitList /\ [][NextList]_vars

-----------------------------------------------------------------------------
(* Filtering over any list of records and any bounds: the arguments are    *)
(* drawn from bounded sets and filter_by_range is applied to them.         *)

MaxItems == 3

\* The instants of timestamps and bounds: three minutes apart by one minute.
FilterInstants == {StartClock - (StartClock % 60) + 60 * k : k \in 0..2}

\* The "_dt" of a record: None, a datetime without a UTC offset, or one with.
FilterStamps ==
    {None} \cup {Naive(t) : t \in FilterInstants}
    \cup {Aware(StartClock - (StartClock % 60) + 60)}

\* The bounds parse_dt gives: None or a datetime without a UTC offset.
FilterBounds == {None} \cup {Naive(t) : t \in FilterInstants}

\* The i-th record of a list, as load_all_transcripts builds it.
FilterItem(i, dt) ==
    [data |-> TranscriptFile("object", Segment("uploaded_", 0, i, ".wav"),
                             IF dt.some THEN JsonDatetime("iso", dt.t, dt.aware)
                             ELSE JsonDatetime("null", 0, FALSE),
                             << >>, LANGUAGE, 0),
     _dt |-> dt]

InitFilter ==
    /\ clock = StartClock
    /\ uploads_raw = EmptyDir
    /\ uploads_text = EmptyDir
    /\ \E n \in 0..MaxItems :
       \E f \in [1..n -> FilterStamps], start_dt \in FilterBounds, end_dt \in FilterBounds :
          request = [NoRequest EXCEPT !.items = [i \in 1..n |-> FilterItem(i, f[i])],
                                      !.start_dt = start_dt, !.end_dt = end_dt]
    /\ response = NoResponse
    /\ calls = << >>
    /\ wav_path = NoName
    /\ nuploads = 0
    /\ nfaults = 0
    /\ threads = NoThreads

\* A call of filter_by_range(items, start_dt, end_dt): the list, or the 500 of
\* a TypeError.
FilterByRange ==
    /\ request.route = ""
    /\ \E r \in {filter_by_range(request.items, request.start_dt, request.end_dt)} :
        /\ request' = [request EXCEPT !.route = "filter_by_range"]
        /\ response' = IF r.exc THEN ErrorResponse(500, "TypeError")
                       ELSE [NoResponse EXCEPT !.status = 200, !.items = r.items]
        /\ calls' = <<"filter_by_range">>
    /\ UNCHANGED <<clock, uploads_raw, uploads_text, wav_path, nuploads, nfaults, threads>>

NextFilter == FilterByRange

SpecFilter == InitFilter /\ [][NextFilter]_vars

-----------------------------------------------------------------------------
(* Uploads side by side: the steps of upload_audio of the requests are     *)
(* interleaved, and time passes between them.                              *)

\* A request arrives: an empty body is answered at once.
Receive(t) ==
    /\ threads[t].pc = "idle"
    /\ \E data \in Payloads :
        /\ threads' = [threads EXCEPT ![t] =
                          IF data = << >> THEN Failed(@, 400, "no data")
                          ELSE [@ EXCEPT !.pc = "open_wav", !.data = data]]
        /\ nuploads' = IF data = << >> THEN nuploads ELSE nuploads + 1
    /\ UNCHANGED <<clock, uploads_raw, uploads_text, request, response, calls, wav_path,
                   nfaults>>

\* save_wav_bytes: the name from the clock, and open(save_path, "wb"), which
\* creates the file or empties it.
OpenWav(t) ==
    /\ threads[t].pc = "open_wav"
    /\ LET filename == WavFilename(strftime_stamp(clock))
       IN  \/ /\ uploads_raw' = Put(uploads_raw, filename, << >>)
              /\ threads' = [threads EXCEPT ![t].pc = "write_wav", ![t].wav_path = filename]
              /\ UNCHANGED nfaults
           \/ /\ nfaults < MaxFaults
              /\ nfaults' = nfaults + 1
              /\ threads' = [threads EXCEPT ![t] = Failed(@, 500, "save failed")]
              /\ UNCHANGED uploads_raw
    /\ UNCHANGED <<clock, uploads_text, request, response, calls, wav_path, nuploads>>

\* save_wav_bytes: f.write(data) and the close, all or a part of the body.
WriteWav(t) ==
    /\ threads[t].pc = "write_wav"
    /\ LET thread == threads[t]
       IN  \E k \in 0..Len(thread.data) :
              /\ uploads_raw' = Put(uploads_raw, thread.wav_path,
                                    Overlay(uploads_raw[thread.wav_path],
                                            SubSeq(thread.data, 1, k)))
              /\ IF k = Len(thread.data)
                 THEN /\ threads' = [threads EXCEPT ![t].pc = "transcribe"]
                      /\ UNCHANGED nfaults
                 ELSE /\ nfaults < MaxFaults
                      /\ nfaults' = nfaults + 1
                      /\ threads' = [threads EXCEPT ![t] = Failed(@, 500, "save failed")]
    /\ UNCHANGED <<clock, uploads_text, request, response, calls, wav_path, nuploads>>

\* transcribe_wav(wav_path) on the bytes the file holds now.
Transcribe(t) ==
    /\ threads[t].pc = "transcribe"
    /\ \E ok \in BOOLEAN :
       \E r \in {transcribe_wav(uploads_raw, threads[t].wav_path, ok)} :
          IF r.exc
          THEN /\ nfaults < MaxFaults
               /\ nfaults' = nfaults + 1
               /\ threads' = [threads EXCEPT ![t] = Failed(@, 500, "stt failed")]
          ELSE /\ threads' = [threads EXCEPT ![t].pc = "open_json", ![t].stt_text = r.text]
               /\ UNCHANGED nfaults
    /\ UNCHANGED <<clock, uploads_raw, uploads_text, request, response, calls, wav_path,
                   nuploads>>

\* save_transcription_json: the clock is read, and open(json_path, "w")
\* creates the file or empties it.
OpenJson(t) ==
    /\ threads[t].pc = "open_json"
    /\ \/ /\ uploads_text' = Put(uploads_text, JsonFilename(threads[t].wav_path), InvalidFile)
          /\ threads' = [threads EXCEPT ![t].pc = "dump_json", ![t].now = clock]
          /\ UNCHANGED nfaults
       \/ /\ nfaults < MaxFaults
          /\ nfaults' = nfaults + 1
          /\ threads' = [threads EXCEPT ![t] = Failed(@, 500, "json save failed")]
          /\ UNCHANGED uploads_text
    /\ UNCHANGED <<clock, uploads_raw, request, response, calls, wav_path, nuploads>>

\* save_transcription_json: json.dump and the close, then the 200; a dump
\* that fails has written nothing or a part of the text.
DumpJson(t) ==
    /\ threads[t].pc = "dump_json"
    /\ LET thread == threads[t]
           json_filename == JsonFilename(thread.wav_path)
       IN  \/ /\ uploads_text' =
                    Put(uploads_text, json_filename,
                        OverlayJson(uploads_text[json_filename],
                                    meta(thread.wav_path, thread.now, thread.stt_text)))
              /\ threads' = [threads EXCEPT ![t].pc = "done", ![t].status = 200,
                                            ![t].message = "ok", ![t].text = thread.stt_text]
              /\ UNCHANGED nfaults
           \/ /\ nfaults < MaxFaults
              /\ nfaults' = nfaults + 1
              /\ \E cut \in BOOLEAN :
                    uploads_text' = IF cut THEN Put(uploads_text, json_filename, InvalidFile)
                                    ELSE uploads_text
              /\ threads' = [threads EXCEPT ![t] = Failed(@, 500, "json save failed")]
    /\ UNCHANGED <<clock, uploads_raw, request, response, calls, wav_path, nuploads>>

NextThreads ==
    \/ Tick
    \/ \E t \in Threads :
          \/ Receive(t)
          \/ OpenWav(t)
          \/ WriteWav(t)
          \/ Transcribe(t)
          \/ OpenJson(t)
          \/ DumpJson(t)

SpecThreads == Init /\ [][NextThreads]_vars

-----------------------------------------------------------------------------
(* Claims.                                                                 *)

Range(seq) == {seq[i] : i \in 1..Len(seq)}

\* C1: a GET /audio/<filename> for the filename a successful upload returned,
\* with no other request in between, answers 200 with the uploaded bytes.
C1_UploadThenServe ==
    [][(/\ request.route = "/upload_audio"
        /\ response.status = 200
        /\ request'.route = "/audio"
        /\ request'.filename = Rel(<<response.filename>>))
       => (response'.status = 200 /\ response'.body = request.data)]_vars

\* The one upload of the run succeeded, and its two bytes were then served.
C1_Witness ==
    /\ request.route = "/audio"
    /\ response.status = 200
    /\ nuploads = 1 /\ nfaults = 0
    /\ Len(response.body) = 2
    /\ request.filename \in {Rel(<<f>>) : f \in DOMAIN uploads_raw}

\* C2: an upload with an empty body answers 400 "no data", leaves both stores
\* as they were and calls none of save_wav_bytes, transcribe_wav and
\* save_transcription_json.
C2_EmptyPayloadRejected ==
    [][(request'.route = "/upload_audio" /\ request'.data = << >>)
       => (/\ response'.status = 400
           /\ response'.message = "no data"
           /\ uploads_raw' = uploads_raw
           /\ uploads_text' = uploads_text
           /\ calls' = << >>)]_vars

\* An empty upload was rejected with both stores holding files.
C2_Witness ==
    /\ request.route = "/upload_audio"
    /\ request.data = << >>
    /\ response.status = 400
    /\ DOMAIN uploads_raw # {}
    /\ DOMAIN uploads_text # {}

\* C3: when the engine fails in an upload whose audio was saved, the blob of
\* the request is stored with the body, the transcript store is as it was and
\* the response is the 500 of the transcribe stage.
C3_TranscribeFailure ==
    [][(/\ nuploads' = nuploads + 1
        /\ request'.env.io1 = IoOk(Len(request'.data))
        /\ ~request'.env.stt_ok)
       => (/\ response'.status = 500
           /\ response'.message = "stt failed"
           /\ wav_path' \in DOMAIN uploads_raw'
           /\ uploads_raw'[wav_path'] = request'.data
           /\ uploads_text' = uploads_text)]_vars

\* The engine failed on an upload: its blob is stored without a transcript,
\* next to the transcript of another upload.
C3_Witness ==
    /\ request.route = "/upload_audio"
    /\ ~request.env.stt_ok
    /\ response.message = "stt failed"
    /\ wav_path \in DOMAIN uploads_raw
    /\ JsonFilename(wav_path) \notin DOMAIN uploads_text
    /\ DOMAIN uploads_text # {}

\* C4: the record list of the search page, before filtering, holds exactly
\* one record for every stored blob.
C4_OneRecordPerBlob ==
    LET items == load_all_transcripts(uploads_text).items
    IN  /\ Len(items) = Cardinality(DOMAIN uploads_raw)
        /\ \A f \in DOMAIN uploads_raw : \E i \in 1..Len(items) : items[i].data.filename = f

\* C5: no request changes or removes the bytes stored under a blob's name
\* (stated for the runs in which no write and no transcription failed).
C5_BlobImmutable ==
    [][nfaults' = 0 =>
          \A f \in DOMAIN uploads_raw :
              f \in DOMAIN uploads_raw' /\ uploads_raw'[f] = uploads_raw[f]]_vars

\* A requested name with a path separator or a parent-directory segment.
Traverses(name) == name.abs \/ Len(name.segs) > 1 \/ DotDot \in Range(name.segs)

IsBlobPath(p) == Len(p) > 0 /\ Front(p) = UPLOAD_DIR /\ Last(p) \in DOMAIN uploads_raw

\* C6: playback and export return the content of blobs in UPLOAD_DIR only; a
\* name with a path separator or a parent-directory segment is rejected by
\* playback and adds nothing to an archive.
C6_NoTraversal ==
    /\ (request.route = "/audio" /\ response.status = 200) => IsBlobPath(response.path)
    /\ (request.route = "/audio" /\ Traverses(request.filename)) => response.status = 404
    /\ request.route = "/download_selected" =>
          /\ \A i \in 1..Len(response.entries) : IsBlobPath(response.entries[i].path)
          /\ \A i \in 1..Len(request.files) :
                Traverses(request.files[i]) =>
                    \A j \in 1..Len(response.entries) :
                        response.entries[j].arcname # NormPath(<< >>, request.files[i].segs)

\* C7: an export of a non-empty selection answers 200 with an archive whose
\* entries are the requested names that are blobs, each under its own name.
C7_ArchiveExact ==
    (request.route = "/download_selected" /\ request.files # << >>)
    => /\ response.status = 200
       /\ Range(response.entries) =
             {[arcname |-> <<f>>, path |-> UPLOAD_DIR \o <<f>>] :
                 f \in {g \in DOMAIN uploads_raw : Rel(<<g>>) \in Range(request.files)}}

\* C8: an export without a selection answers 400, builds no archive and
\* looks at no file.
C8_NoSelection ==
    (request.route = "/download_selected" /\ request.files = << >>)
    => /\ response.status = 400
       /\ response.message = "no files selected"
       /\ response.entries = << >>
       /\ response.mimetype = ""
       /\ calls = << >>

\* An export without a selection was refused while blobs were stored.
C8_Witness ==
    /\ request.route = "/download_selected"
    /\ request.files = << >>
    /\ response.status = 400
    /\ DOMAIN uploads_raw # {}

\* The date and time fields that name the minute starting at instant m.
MinuteFields(m) ==
    [date |-> FormDate("str", DayOf(m)), time |-> FormTime("str", HourOf(m), MinuteOf(m))]

\* A search whose start and end fields both name the minute starting at m.
SearchesMinute(m) ==
    /\ request.route = "/"
    /\ request.method = "POST"
    /\ request.form = [start_date |-> MinuteFields(m).date, start_time |-> MinuteFields(m).time,
                       end_date |-> MinuteFields(m).date, end_time |-> MinuteFields(m).time]

InMinute(dt, m) == dt.some /\ m <= dt.t /\ dt.t < m + 60

\* The records whose timestamp lies in the minute starting at m.
RECURSIVE RecordsInMinute(_, _)
RecordsInMinute(items, m) ==
    IF items = << >> THEN << >>
    ELSE (IF InMinute(Head(items)._dt, m) THEN <<Head(items)>> ELSE << >>)
         \o RecordsInMinute(Tail(items), m)

\* Three uploads at three distinct seconds succeeded, and the record of the
\* middle one has its timestamp in the minute starting at m.
ThreeUploads(m) ==
    LET all == load_all_transcripts(uploads_text).items
        blobs == SortedNames(DOMAIN uploads_raw)
    IN  /\ nuploads = 3 /\ nfaults = 0 /\ Len(blobs) = 3
        /\ \E i \in 1..Len(all) : all[i].data.filename = blobs[2] /\ InMinute(all[i]._dt, m)

\* C9: a search for one minute shows the records whose timestamp lies in that
\* minute and no other; after three uploads at three distinct seconds, a search
\* for the minute of the middle upload's record shows that record alone.
C9_MinuteQuery ==
    \A m \in SearchMinutes :
        SearchesMinute(m) =>
            /\ response.status = 200
            /\ response.items = RecordsInMinute(load_all_transcripts(uploads_text).items, m)
            /\ ThreeUploads(m) =>
                  /\ Len(response.items) = 1
                  /\ response.items[1].data.filename = SortedNames(DOMAIN uploads_raw)[2]

\* C10 as stated: the list is sorted by timestamp descending, and no record
\* without a timestamp comes before a record with one.
C10_NullsLast ==
    (request.route = "load_all_transcripts" /\ response.status = 200)
    => \A i, j \in 1..Len(response.items) :
          i < j =>
             LET a == response.items[i]._dt
                 b == response.items[j]._dt
             IN  /\ (a.some /\ b.some) => a.t >= b.t
                 /\ ~(~a.some /\ b.some)

\* What the sort does establish: the timestamps descend, and a record without
\* a timestamp comes before a record with one only if that timestamp is
\* datetime.min.
SortedNullAsMin ==
    (request.route = "load_all_transcripts" /\ response.status = 200)
    => \A i, j \in 1..Len(response.items) :
          i < j =>
             LET a == response.items[i]._dt
                 b == response.items[j]._dt
             IN  /\ (a.some /\ b.some) => a.t >= b.t
                 /\ (~a.some /\ b.some) => b = DatetimeMin

\* A call of filter_by_range has answered.
Filtered == request.route = "filter_by_range"

\* The record has a timestamp within the bounds that are not None.
InRange(it, start_dt, end_dt) ==
    /\ it._dt.some
    /\ start_dt.some => start_dt.t <= it._dt.t
    /\ end_dt.some => it._dt.t <= end_dt.t

\* The records of a list that are in range, in the order of the list.
RECURSIVE Kept(_, _, _)
Kept(items, start_dt, end_dt) ==
    IF items = << >> THEN << >>
    ELSE (IF InRange(Head(items), start_dt, end_dt) THEN <<Head(items)>> ELSE << >>)
         \o Kept(Tail(items), start_dt, end_dt)

\* No record of the call carries a UTC offset.
AllNaive == \A i \in 1..Len(request.items) : ~request.items[i]._dt.aware

\* C11: with a bound that is not None, filter_by_range returns the records
\* that have a timestamp within the bounds (both inclusive), in input order,
\* and no record without a timestamp.
C11_FilterExact ==
    (Filtered /\ (request.start_dt.some \/ request.end_dt.some))
    => /\ response.status = 200
       /\ response.items = Kept(request.items, request.start_dt, request.end_dt)

\* What the filter does establish: the same, for records without a UTC offset.
FilterExactNaive ==
    (Filtered /\ (request.start_dt.some \/ request.end_dt.some) /\ AllNaive)
    => /\ response.status = 200
       /\ response.items = Kept(request.items, request.start_dt, request.end_dt)

\* C12: with both bounds None, filter_by_range returns its input list: the
\* same records in the same order, those without a timestamp included.
C12_NoBoundsIdentity ==
    (Filtered /\ ~request.start_dt.some /\ ~request.end_dt.some)
    => /\ response.status = 200
       /\ response.items = request.items

\* A list of three records came back whole: one without a timestamp, one with
\* a UTC offset and one without.
C12_Witness ==
    /\ Filtered
    /\ ~request.start_dt.some /\ ~request.end_dt.some
    /\ Len(response.items) = 3
    /\ ~response.items[1]._dt.some
    /\ response.items[2]._dt.aware
    /\ response.items[3]._dt.some /\ ~response.items[3]._dt.aware

\* C13: with a start bound later than the end bound, filter_by_range returns
\* the empty list for every input list.
C13_InvertedRangeEmpty ==
    (Filtered /\ request.start_dt.some /\ request.end_dt.some
        /\ request.start_dt.t > request.end_dt.t)
    => /\ response.status = 200
       /\ response.items = << >>

\* What the filter does establish: the same, for records without a UTC offset.
InvertedRangeEmptyNaive ==
    (Filtered /\ request.start_dt.some /\ request.end_dt.some
        /\ request.start_dt.t > request.end_dt.t /\ AllNaive)
    => /\ response.status = 200
       /\ response.items = << >>

\* A call of load_all_transcripts has answered.
Listed == request.route = "load_all_transcripts"

\* What the list must hold for the file f of TEXT_DIR: a file that is no JSON
\* object has no record; a transcript with an ISO date has its record with
\* that timestamp; any other transcript has no record or one without a
\* timestamp.
ListedAsItShould(f, items) ==
    IF f.kind # "object" THEN \A i \in 1..Len(items) : items[i].data # f
    ELSE IF Truthy(f.datetime) /\ fromisoformat(f.datetime).exc = ""
         THEN \E i \in 1..Len(items) :
                 items[i].data = f /\ items[i]._dt = fromisoformat(f.datetime).dt
    ELSE \A i \in 1..Len(items) : items[i].data = f => ~items[i]._dt.some

\* No transcript of TEXT_DIR has a date with a UTC offset.
NoOffsets ==
    \A n \in DOMAIN uploads_text :
        ~(uploads_text[n].kind = "object" /\ uploads_text[n].datetime.off)

\* C14: whatever the files of TEXT_DIR hold, load_all_transcripts returns a
\* list; a bad file is skipped or gets no timestamp, and every well-formed
\* transcript is in the list.
C14_ListingNeverFails ==
    Listed =>
       /\ response.status = 200
       /\ \A n \in DOMAIN uploads_text :
             EndsWithJson(n) => ListedAsItShould(uploads_text[n], response.items)

\* What the listing does establish: the same, when no date has a UTC offset.
ListingNeverFailsNaive ==
    (Listed /\ NoOffsets) =>
       /\ response.status = 200
       /\ \A n \in DOMAIN uploads_text :
             EndsWithJson(n) => ListedAsItShould(uploads_text[n], response.items)

\* A search was posted.
Searched == request.route = "/" /\ request.method = "POST"

\* The start fields of the search cannot be parsed; the end fields cannot.
BadStart == request.form.start_date.k = "bad"
BadEnd == request.form.end_time.k = "str" /\ request.form.end_time.hh \notin 0..23

\* The bound a pair of fields that can be parsed stands for: an absent field
\* stands for today, and for 00:00 (start) or 23:59 (end).
BoundOf(date, time, is_end) ==
    LET day == IF date.k = "str" THEN date.day ELSE DayOf(clock)
        hh == IF time.k = "str" THEN time.hh ELSE IF is_end THEN 23 ELSE 0
        mm == IF time.k = "str" THEN time.mm ELSE IF is_end THEN 59 ELSE 0
    IN  Naive(day * SecPerDay + hh * 3600 + mm * 60)

\* C15: a search whose start (or end) fields cannot be parsed answers 200 with
\* that bound None and the other bound applied as it stands; with both pairs
\* unparsable the page shows the whole list.
C15_UnparsableBound ==
    (Searched /\ (BadStart \/ BadEnd)) =>
       LET all == load_all_transcripts(uploads_text).items
           start_dt == IF BadStart THEN None
                       ELSE BoundOf(request.form.start_date, request.form.start_time, FALSE)
           end_dt == IF BadEnd THEN None
                     ELSE BoundOf(request.form.end_date, request.form.end_time, TRUE)
       IN  /\ response.status = 200
           /\ response.start_dt = start_dt
           /\ response.end_dt = end_dt
           /\ response.items = IF BadStart /\ BadEnd THEN all ELSE Kept(all, start_dt, end_dt)

\* A search with unparsable start fields and an end bound: the page shows some
\* of the records and leaves out one that is later than the end bound.
C15_Witness ==
    /\ Searched /\ BadStart /\ ~BadEnd
    /\ response.status = 200
    /\ response.end_dt.some
    /\ Len(response.items) >= 1
    /\ Len(response.items) < Len(load_all_transcripts(uploads_text).items)

\* An upload with a body has answered.
Uploaded == request.route = "/upload_audio" /\ request.data # << >>

\* Whether each write and the engine worked during the upload that answered.
SaveWorked == request.env.io1 = IoOk(Len(request.data))
EngineWorked == request.env.stt_ok
DumpWorked == request.env.io2 = IoOk(1)

\* C16: an upload with a body calls save_wav_bytes, transcribe_wav and
\* save_transcription_json in this order, each at most once and each only
\* after the one before it worked; the first that fails ends the request with
\* the 500 of its stage; a 200 comes only with the blob and the transcript
\* written.
C16_StagesInOrder ==
    Uploaded =>
       /\ calls = IF ~SaveWorked THEN <<"save_wav_bytes">>
                  ELSE IF ~EngineWorked THEN <<"save_wav_bytes", "transcribe_wav">>
                  ELSE <<"save_wav_bytes", "transcribe_wav", "save_transcription_json">>
       /\ response.status = IF SaveWorked /\ EngineWorked /\ DumpWorked THEN 200 ELSE 500
       /\ response.message = IF ~SaveWorked THEN "save failed"
                             ELSE IF ~EngineWorked THEN "stt failed"
                             ELSE IF ~DumpWorked THEN "json save failed"
                             ELSE "ok"
       /\ response.status = 200 =>
             /\ wav_path \in DOMAIN uploads_raw
             /\ uploads_raw[wav_path] = request.data
             /\ JsonFilename(wav_path) \in DOMAIN uploads_text
             /\ uploads_text[JsonFilename(wav_path)].kind = "object"
             /\ uploads_text[JsonFilename(wav_path)].filename = wav_path

\* After a failed upload the client sent the body again and got its 200, all
\* three stages called once.
C16_Witness ==
    /\ Uploaded
    /\ response.status = 200
    /\ Len(calls) = 3
    /\ nuploads = 2 /\ nfaults = 1

\* C17: when the save of the transcript fails in an upload, the response is
\* the 500 of that stage, the blob of the request is stored with the whole
\* body, and the request leaves no transcript record: every transcript that
\* can be loaded was there before, unchanged.
C17_TranscriptSaveFailure ==
    [][(/\ nuploads' = nuploads + 1
        /\ request'.env.io1 = IoOk(Len(request'.data))
        /\ request'.env.stt_ok
        /\ request'.env.io2 # IoOk(1))
       => (/\ response'.status = 500
           /\ response'.message = "json save failed"
           /\ wav_path' \in DOMAIN uploads_raw'
           /\ uploads_raw'[wav_path'] = request'.data
           /\ \A n \in DOMAIN uploads_text' :
                 uploads_text'[n].kind = "object" =>
                    n \in DOMAIN uploads_text /\ uploads_text[n] = uploads_text'[n])]_vars

\* The dump of a transcript stopped early: the blob is stored whole, and the
\* cut-off file left under the transcript's name is no record.
C17_Witness ==
    /\ Uploaded
    /\ response.message = "json save failed"
    /\ wav_path \in DOMAIN uploads_raw
    /\ uploads_raw[wav_path] = request.data
    /\ Len(request.data) = 2
    /\ JsonFilename(wav_path) \in DOMAIN uploads_text
    /\ uploads_text[JsonFilename(wav_path)].kind = "invalid"
    /\ load_all_transcripts(uploads_text).items = << >>

\* The text the engine gives for a body.
Transcript(data) == JoinTexts(EngineSegments(data))

\* The request of thread t was answered with 200.
Succeeded(t) == threads[t].pc = "done" /\ threads[t].status = 200

\* No other request has the file name of the request of thread t.
OwnName(t) == \A u \in Threads \ {t} : threads[u].wav_path # threads[t].wav_path

\* The name of the blob that goes with the transcript named j.
BlobOf(j) == [j EXCEPT !.ext = ".wav"]

\* C18: under every interleaving, a request that ended with 200 and whose
\* file name no other request has leaves the blob with its own body and the
\* transcript with the text of its own body, and reports that text, whether
\* the other requests failed or not.
C18_DifferentNamesSafe ==
    \A t \in Threads :
        (Succeeded(t) /\ OwnName(t)) =>
            LET thread == threads[t]
                json_filename == JsonFilename(thread.wav_path)
            IN  /\ thread.wav_path \in DOMAIN uploads_raw
                /\ uploads_raw[thread.wav_path] = thread.data
                /\ json_filename \in DOMAIN uploads_text
                /\ uploads_text[json_filename].kind = "object"
                /\ uploads_text[json_filename].filename = thread.wav_path
                /\ uploads_text[json_filename].text = Transcript(thread.data)
                /\ thread.text = Transcript(thread.data)

\* Two requests with different bodies and different file names ran side by
\* side: one ended with 200, the other failed in the engine.
C18_Witness ==
    \E t, u \in Threads :
        /\ Succeeded(t) /\ OwnName(t)
        /\ threads[u].pc = "done" /\ threads[u].message = "stt failed"
        /\ threads[u].wav_path # NoName
        /\ threads[u].data # threads[t].data

\* C19: under every interleaving, a transcript that exists holds the text of
\* the bytes its blob holds now, and a request answered with 200 reported the
\* text of its own body.
C19_TranscriptMatchesBlob ==
    /\ \A j \in DOMAIN uploads_text :
          uploads_text[j].kind = "object" =>
             /\ BlobOf(j) \in DOMAIN uploads_raw
             /\ uploads_text[j].text = Transcript(uploads_raw[BlobOf(j)])
    /\ \A t \in Threads : Succeeded(t) => threads[t].text = Transcript(threads[t].data)

\* C20: every transcript file has its blob: <base>.json exists only if
\* <base>.wav exists, and the transcript's filename field names that blob.
C20_TranscriptHasBlob ==
    \A j \in DOMAIN uploads_text :
        /\ BlobOf(j) \in DOMAIN uploads_raw
        /\ uploads_text[j].kind = "object" => uploads_text[j].filename = BlobOf(j)

\* Two transcript files exist, each with its blob: a whole one, and one cut
\* off by a failed dump.
C20_Witness ==
    \E i, j \in DOMAIN uploads_text :
        /\ uploads_text[i].kind = "object"
        /\ uploads_text[i].filename = BlobOf(i)
        /\ uploads_text[j].kind = "invalid"
        /\ \E t \in Threads :
              /\ threads[t].message = "json save failed"
              /\ JsonFilename(threads[t].wav_path) = j
        /\ {BlobOf(i), BlobOf(j)} \subseteq DOMAIN uploads_raw

====
